---- MODULE Spec2Model ----
(***************************************************************************)
(* Model of src/rvm/rvm.py: the reconciliation run deploy_all, its helpers *)
(* and the CloudFormation control plane it calls.                          *)
(*                                                                         *)
(* Strings are sequences of tokens.  The separators "/", ".", "-" and ":"  *)
(* are tokens of their own, so that basename, splitext, startswith and the *)
(* f-strings of the source are computed on the text as the source does.    *)
(*                                                                         *)
(* The external calls are assume_role, list_stacks (its pages),            *)
(* delete_stack, the stack_delete_complete waiter, create_stack and        *)
(* update_stack: each returns or raises, as the environment chooses.       *)
(* Building a client object (session.client, boto3.client) makes no call   *)
(* and is taken to return.  The dicts existing_stacks are kept as the set  *)
(* of their keys: the code reads nothing else of them.                     *)
(***************************************************************************)
EXTENDS Naturals, Sequences, FiniteSets

(* ------------------------------ bounds -------------------------------- *)

\* Longest manifest["templates"] list the model draws.
MaxEntries == 2

\* Most external calls that fail by the environment's choice in one run.
MaxFailures == 1

(* ------------------------------ strings ------------------------------- *)

\* str.rfind as a 1-based index; 0 when c does not occur.
RFind(s, c) ==
    LET I == {i \in 1..Len(s) : s[i] = c}
    IN  IF I = {} THEN 0 ELSE CHOOSE i \in I : \A j \in I : j <= i

\* str.startswith
StartsWith(s, p) ==
    /\ Len(p) <= Len(s)
    /\ SubSeq(s, 1, Len(p)) = p

\* os.path.basename: the text after the last "/".
basename(p) == SubSeq(p, RFind(p, "/") + 1, Len(p))

\* os.path.splitext(p)[0]: the text before the last ".", unless that dot
\* leads the file name (only dots between the last "/" and it).
splitext(p) ==
    LET sepIndex == RFind(p, "/")
        dotIndex == RFind(p, ".")
    IN  IF /\ dotIndex > sepIndex
           /\ \E k \in (sepIndex + 1)..(dotIndex - 1) : p[k] # "."
        THEN SubSeq(p, 1, dotIndex - 1)
        ELSE p

STACK_PREFIX == <<"rvm", "-", "provisioned">>

generate_stack_name(template_file) ==
    STACK_PREFIX \o <<"-">> \o splitext(basename(template_file))

\* f"{stack_name}-{account_id}"
ExpectedName(stack_name, account_id) == stack_name \o <<"-">> \o account_id

\* f"{template_file}:{account_id}" and f"{stack_name}:{account_id}"
ResultEntry(what, account_id) == what \o <<":">> \o account_id

(* ------------------------------ inputs -------------------------------- *)

Acct1 == <<"111">>
Acct2 == <<"222">>
Accounts == {Acct1, Acct2}

NetYaml  == <<"net", ".", "yaml">>
DbYaml   == <<"envs", "/", "db", ".", "yaml">>
GoneYaml == <<"gone", ".", "yaml">>

\* Template files that share net.yaml's file name or its base name.
StageNetYaml == <<"stage", "/", "net", ".", "yaml">>
NetJson == <<"net", ".", "json">>

\* The template files the extracted bundle holds; gone.yaml is not in it.
BundleFiles == {NetYaml, DbYaml, StageNetYaml, NetJson}

\* A path of the bundle that is a directory: open() raises IsADirectoryError
\* for it, which is no FileNotFoundError.
EnvsDir == <<"envs">>
BundleDirs == {EnvsDir}

\* template_config values: .get("template_file") is <<>> when the key is
\* absent, .get("accounts", []) is <<>> when absent or empty.
EntryChoices ==
    << [template_file |-> NetYaml,  accounts |-> <<Acct1, Acct2>>],
       [template_file |-> GoneYaml, accounts |-> <<Acct2, Acct1>>],
       [template_file |-> DbYaml,   accounts |-> <<Acct1>>],
       [template_file |-> <<>>,     accounts |-> <<Acct2>>],
       [template_file |-> NetYaml,  accounts |-> <<>>],
       [template_file |-> EnvsDir,  accounts |-> <<Acct1>>] >>

\* The entries of EntryChoices at the indices I, in their order there.
RECURSIVE Pick(_, _)
Pick(I, from) ==
    IF from > Len(EntryChoices) THEN <<>>
    ELSE IF from \in I THEN <<EntryChoices[from]>> \o Pick(I, from + 1)
    ELSE Pick(I, from + 1)

\* What raises before the manifest is there: the event has no S3 record
\* (lines 275-277), the bundle is not downloaded or extracted (line 282), or
\* manifest.json is missing or is no JSON (line 151).
Unreadables == {"event", "bundle", "manifest"}

\* The manifests: those that are not read, one without a "templates" key, and
\* those whose templates are up to MaxEntries entries of EntryChoices.
Manifests ==
    {[raises |-> r, has_templates |-> FALSE, templates |-> <<>>] : r \in Unreadables} \cup
    {[raises |-> "", has_templates |-> FALSE, templates |-> <<>>]} \cup
    {[raises |-> "", has_templates |-> TRUE, templates |-> Pick(I, 1)] :
        I \in {J \in SUBSET (1..Len(EntryChoices)) : Cardinality(J) <= MaxEntries}}

\* Entries whose template files differ and share a file name or a base name.
NamingEntries ==
    { [template_file |-> NetYaml,      accounts |-> <<Acct1, Acct2>>],
      [template_file |-> StageNetYaml, accounts |-> <<Acct1>>],
      [template_file |-> NetJson,      accounts |-> <<Acct2, Acct1>>] }

\* The manifests of two such entries.
NamingManifests ==
    {[raises |-> "", has_templates |-> TRUE, templates |-> t] :
        t \in {<<x, y>> : x \in NamingEntries, y \in NamingEntries} \
              {<<x, x>> : x \in NamingEntries}}

\* Names of stacks an account may hold before the run.
NetStack(a)    == ExpectedName(generate_stack_name(NetYaml), a)
GoneStack(a)   == ExpectedName(generate_stack_name(GoneYaml), a)
OldStack(a)    == ExpectedName(STACK_PREFIX \o <<"-", "old">>, a)
BrokenStack(a) == ExpectedName(STACK_PREFIX \o <<"-", "broken">>, a)
OtherStack     == <<"other", "-", "stack">>

\* A control-plane account: a function from the names of its stacks to their
\* status.  Every account holds a stack the listing must filter out by its
\* status and one it must filter out by its name.
StacksOf(names, a) ==
    [n \in names \cup {BrokenStack(a), OtherStack} |->
        IF n = BrokenStack(a) THEN "ROLLBACK_COMPLETE"
        ELSE IF n = GoneStack(a) THEN "UPDATE_COMPLETE"
        ELSE "CREATE_COMPLETE"]

InitialStacks(a) ==
    IF a = Acct1
    THEN {StacksOf(S, a) : S \in {{}, {NetStack(a)}, {GoneStack(a), OldStack(a)},
                                  {NetStack(a), OldStack(a)}}}
    ELSE {StacksOf(S, a) : S \in {{}, {OldStack(a)}}}

(* ------------------------------- state -------------------------------- *)

VARIABLES
    manifest,                \* the parsed manifest.json
    cp,                      \* control plane: account -> (stack name -> status)
    cp0,                     \* the control plane as the first run found it
    pc,                      \* position of deploy_all
    results,                 \* results["success"], ["failed"], ["deleted"]
    expected_stacks,         \* set of expected stack names
    all_accounts,            \* accounts of the resolvable entries
    account_stacks,          \* account -> its expected stack names
    account_existing_stacks, \* account -> snapshot (keys of the dict), where set
    todo_accounts,           \* accounts the first loop has still to visit
    account_id,              \* the first loop's current account
    orphaned_stacks,         \* orphans the delete loop has still to visit
    ti,                      \* index of the deploy loop's template_config
    ai,                      \* index of the deploy loop's account
    calls,                   \* log of the external calls, in order
    failures,                \* external calls failed by the environment, this run
    run,                     \* 1 in the first run, 2 in a run that follows it
    mode,                    \* "first", "again" or "replay" (see Rerun, Replay)
    quiet,                   \* the account that is spared failures in a replay
    first_results            \* the results of the first run, once it is over

vars ==
    << manifest, cp, cp0, pc, results, expected_stacks, all_accounts,
       account_stacks, account_existing_stacks, todo_accounts, account_id,
       orphaned_stacks, ti, ai, calls, failures, run, mode, quiet,
       first_results >>

Range(s) == {s[i] : i \in 1..Len(s)}

NoAccount == <<>>

EmptyResults == [success |-> <<>>, failed |-> <<>>, deleted |-> <<>>]

\* The snapshots: a dict whose keys are the accounts read so far.
NoSnapshots == [a \in {} |-> {}]

\* The state deploy_all starts from (lines 147-160).
RunStart ==
    /\ pc = "first_pass"
    /\ results = EmptyResults
    /\ expected_stacks = {}
    /\ all_accounts = {}
    /\ account_stacks = [a \in Accounts |-> {}]
    /\ account_existing_stacks = NoSnapshots
    /\ todo_accounts = {}
    /\ account_id = NoAccount
    /\ orphaned_stacks = {}
    /\ ti = 1
    /\ ai = 1
    /\ failures = 0

Init ==
    /\ manifest \in Manifests
    /\ cp \in [Accounts -> UNION {InitialStacks(a) : a \in Accounts}]
    /\ \A a \in Accounts : cp[a] \in InitialStacks(a)
    /\ cp0 = cp
    /\ RunStart
    /\ calls = <<>>
    /\ run = 1
    /\ mode = "first"
    /\ quiet = NoAccount
    /\ first_results = EmptyResults

(* --------------------------- the first loop --------------------------- *)

\* template_config is skipped by both loops: no template_file, no accounts,
\* or _read_template_file raises FileNotFoundError.
Unreadable(template_config) ==
    template_config.template_file \notin BundleFiles \cup BundleDirs

Skipped(template_config) ==
    \/ template_config.template_file = <<>>
    \/ template_config.accounts = <<>>
    \/ Unreadable(template_config)

\* Lines 162-193: the loop over manifest["templates"] that collects the
\* expected stacks; acc holds failed, expected_stacks, all_accounts and
\* account_stacks.
RECURSIVE FirstPassFrom(_, _, _)
FirstPassFrom(templates, i, acc) ==
    IF i > Len(templates) THEN acc
    ELSE
      LET template_config == templates[i]
          template_file == template_config.template_file
          accounts == template_config.accounts
          stack_name == generate_stack_name(template_file)
      IN  IF template_file = <<>> \/ accounts = <<>>
          THEN FirstPassFrom(templates, i + 1, acc)
          ELSE IF Unreadable(template_config)
          THEN FirstPassFrom(templates, i + 1,
                   [acc EXCEPT !.failed = @ \o accounts])
          ELSE FirstPassFrom(templates, i + 1,
                   [acc EXCEPT
                       !.expected_stacks = @ \cup
                           {ExpectedName(stack_name, a) : a \in Range(accounts)},
                       !.all_accounts = @ \cup Range(accounts),
                       !.account_stacks =
                           [a \in Accounts |->
                               IF a \in Range(accounts)
                               THEN @[a] \cup {ExpectedName(stack_name, a)}
                               ELSE @[a]]])

\* Lines 177-179: _read_template_file raises an exception that is no
\* FileNotFoundError for an entry the loop does not skip; it leaves deploy_all.
FirstPassRaises(templates) ==
    \E i \in 1..Len(templates) :
        /\ templates[i].template_file # <<>>
        /\ templates[i].accounts # <<>>
        /\ templates[i].template_file \in BundleDirs

FirstPassResult ==
    FirstPassFrom(manifest.templates, 1,
        [failed |-> <<>>, expected_stacks |-> {}, all_accounts |-> {},
         account_stacks |-> [a \in Accounts |-> {}]])

\* The next (template_config, account) pair of the deploy loop at or after
\* (i, j): lines 218-237 skip the entries the first loop skipped.
RECURSIVE NextPair(_, _, _)
NextPair(templates, i, j) ==
    IF i > Len(templates) THEN <<i, 1>>
    ELSE IF Skipped(templates[i]) \/ j > Len(templates[i].accounts)
    THEN NextPair(templates, i + 1, 1)
    ELSE <<i, j>>

\* Lines 273-285 and 151-193: read the event, the bundle and the manifest,
\* and collect what the manifest expects.
FirstPass ==
    /\ pc = "first_pass"
    /\ IF manifest.raises # ""
       THEN /\ pc' = "raised"
            /\ UNCHANGED << results, expected_stacks, all_accounts,
                            account_stacks, todo_accounts >>
       ELSE IF ~manifest.has_templates
       THEN /\ pc' = "done"
            /\ UNCHANGED << results, expected_stacks, all_accounts,
                            account_stacks, todo_accounts >>
       ELSE IF FirstPassRaises(manifest.templates)
       THEN /\ pc' = "raised"
            /\ UNCHANGED << results, expected_stacks, all_accounts,
                            account_stacks, todo_accounts >>
       ELSE /\ pc' = "orphan_loop"
            /\ results' = [results EXCEPT !.failed = FirstPassResult.failed]
            /\ expected_stacks' = FirstPassResult.expected_stacks
            /\ all_accounts' = FirstPassResult.all_accounts
            /\ account_stacks' = FirstPassResult.account_stacks
            /\ todo_accounts' = FirstPassResult.all_accounts
    /\ UNCHANGED << manifest, cp, cp0, account_existing_stacks, account_id,
                    orphaned_stacks, ti, ai, calls, failures, run, mode,
                    quiet, first_results >>

(* --------------------------- external calls --------------------------- *)

Put(f, k, v) == [x \in DOMAIN f \cup {k} |-> IF x = k THEN v ELSE f[x]]
Drop(f, k) == [x \in DOMAIN f \ {k} |-> f[x]]

\* One entry of the log: the call, the pair of the deploy loop it was made
\* for (0, 0 in the first loop), how it ended, and for a listing the names
\* the pages delivered.
Call(op, acct, name, i, j, answer) ==
    [run |-> run, op |-> op, acct |-> acct, name |-> name, ti |-> i, ai |-> j,
     result |-> answer.result, seen |-> answer.seen]

Ok == [result |-> "ok", seen |-> {}]
Failed == [result |-> "failed", seen |-> {}]

\* How the first run answered the same call.
Recorded(op, acct, name, i, j) ==
    { [result |-> c.result, seen |-> c.seen] :
        c \in { d \in Range(calls) :
                  /\ d.run = 1 /\ d.op = op /\ d.acct = acct
                  /\ d.name = name /\ d.ti = i /\ d.ai = j } }

\* The answers the environment may give to a call, out of the answers `all`
\* the call has.  A run fails at most MaxFailures calls.  A replay gives an
\* account the answers the first run gave it, and the quiet account none
\* but success; so does the run made again in another order, which has no
\* quiet account.
Answers(op, acct, name, i, j, all) ==
    LET good == {x \in all : x.result = "ok"}
        before == Recorded(op, acct, name, i, j) \cap all
    IN  IF mode \in {"replay", "order"}
        THEN IF acct # quiet /\ before # {} THEN before ELSE good
        ELSE {x \in all : x.result = "ok" \/ failures < MaxFailures}

Count(answer) == IF answer.result = "ok" THEN failures ELSE failures + 1

\* StackStatusFilter of line 71.
StackStatusFilter == {"CREATE_COMPLETE", "UPDATE_COMPLETE"}

\* The StackSummaries list_stacks returns for an account, over all pages.
StackSummaries(a) == {n \in DOMAIN cp[a] : cp[a][n] \in StackStatusFilter}

\* Lines 73-75: the names _get_existing_stacks keeps.
Managed(summaries) == {n \in summaries : StartsWith(n, STACK_PREFIX)}

\* Lines 68-79: the listing ends with every page read, or an exception
\* ends it after some pages; what was read by then is returned.
ListAnswers(a) ==
    {[result |-> "ok", seen |-> Managed(StackSummaries(a))]} \cup
    {[result |-> "failed", seen |-> S] : S \in SUBSET Managed(StackSummaries(a))}

\* The control plane accepts create_stack for a name the account does not
\* hold, and update_stack for a stack that is complete.
Accepts(op, a, name) ==
    IF op = "create_stack"
    THEN name \notin DOMAIN cp[a]
    ELSE name \in DOMAIN cp[a] /\ cp[a][name] \in StackStatusFilter

(* --------------------------- the first loop --------------------------- *)

\* The variant of ExceptOrphanCheck whose handler is outside the for loop.
ExceptOrphanCheckAbort(remaining) == {}

\* Lines 212-215: the handler is inside the for loop of line 197, which
\* goes on with the remaining accounts.
ExceptOrphanCheck(remaining) == remaining

\* Lines 197-199: the loop takes an account and assumes the role in it.
AssumeRoleForOrphans ==
    /\ pc = "orphan_loop"
    /\ \E a \in todo_accounts :
       \E answer \in Answers("assume_role", a, <<>>, 0, 0, {Ok, Failed}) :
          /\ account_id' = a
          /\ calls' = Append(calls, Call("assume_role", a, <<>>, 0, 0, answer))
          /\ failures' = Count(answer)
          /\ IF answer.result = "ok"
             THEN /\ pc' = "list"
                  /\ todo_accounts' = todo_accounts \ {a}
             ELSE /\ pc' = "orphan_loop"
                  /\ todo_accounts' = ExceptOrphanCheck(todo_accounts \ {a})
    /\ UNCHANGED << manifest, cp, cp0, results, expected_stacks, all_accounts,
                    account_stacks, account_existing_stacks, orphaned_stacks,
                    ti, ai, run, mode, quiet, first_results >>

\* The variant of DeleteLoopNext that leaves the loop after one orphan.
DeleteLoopBreak(orphans) == "orphan_loop"

\* Line 208: the loop over orphaned_stacks goes on while orphans are left.
DeleteLoopNext(orphans) == IF orphans = {} THEN "orphan_loop" ELSE "delete_loop"

\* Lines 200-205 (and 63-79): read the account's stacks, keep the snapshot,
\* and plan the deletion of what the manifest does not expect.
GetExistingStacks ==
    /\ pc = "list"
    /\ \E answer \in Answers("list_stacks", account_id, <<>>, 0, 0,
                             ListAnswers(account_id)) :
          LET existing_stacks == answer.seen
              expected_for_account == account_stacks[account_id]
          IN  /\ calls' = Append(calls,
                     Call("list_stacks", account_id, <<>>, 0, 0, answer))
              /\ failures' = Count(answer)
              /\ account_existing_stacks' =
                     Put(account_existing_stacks, account_id, existing_stacks)
              /\ orphaned_stacks' = existing_stacks \ expected_for_account
              /\ pc' = DeleteLoopNext(existing_stacks \ expected_for_account)
    /\ UNCHANGED << manifest, cp, cp0, results, expected_stacks, all_accounts,
                    account_stacks, todo_accounts, account_id, ti, ai, run,
                    mode, quiet, first_results >>

\* The stack the delete loop is at: set when delete_stack was accepted and
\* the waiter has not returned.  It is the stack in DELETE_IN_PROGRESS that
\* is still in orphaned_stacks.
Deleting ==
    {n \in orphaned_stacks :
        n \in DOMAIN cp[account_id] /\ cp[account_id][n] = "DELETE_IN_PROGRESS"}

\* The variant of ExceptDeleteStack without the handler of _delete_stack:
\* the exception ends the account's iteration at line 212.
ExceptDeleteStackAbort(remaining) == {}

\* Lines 98-102: _delete_stack catches the exception and returns False; the
\* loop of line 208 goes on with the remaining orphans.
ExceptDeleteStack(remaining) == remaining

\* Lines 208, 84-88, 98-102: delete_stack for the next orphan.  When the
\* call raises, _delete_stack returns False and the loop goes on.
DeleteStack ==
    /\ pc = "delete_loop"
    /\ \E stack_name \in orphaned_stacks :
       \E answer \in Answers("delete_stack", account_id, stack_name, 0, 0,
                             {Ok, Failed}) :
          /\ calls' = Append(calls,
                 Call("delete_stack", account_id, stack_name, 0, 0, answer))
          /\ failures' = Count(answer)
          /\ IF answer.result = "ok"
             THEN /\ cp' = [cp EXCEPT ![account_id] =
                               Put(@, stack_name, "DELETE_IN_PROGRESS")]
                  /\ pc' = "delete_wait"
                  /\ UNCHANGED orphaned_stacks
             ELSE /\ orphaned_stacks' = ExceptDeleteStack(orphaned_stacks \ {stack_name})
                  /\ pc' = DeleteLoopNext(ExceptDeleteStack(orphaned_stacks \ {stack_name}))
                  /\ UNCHANGED cp
    /\ UNCHANGED << manifest, cp0, results, expected_stacks, all_accounts,
                    account_stacks, account_existing_stacks, todo_accounts,
                    account_id, ti, ai, run, mode, quiet, first_results >>

\* The variant of DeleteReturn that reports every deletion as done.
DeleteReturnAlways(answer) == TRUE

\* Lines 97 and 102: _delete_stack returns True when the waiter returned,
\* False when it raised.
DeleteReturn(answer) == answer.result = "ok"

\* Lines 90-102, 209-210: the waiter returns when the stack is gone, or
\* raises (the deletion failed, or the waiter gave up while it goes on).
WaitStackDeleteComplete ==
    /\ pc = "delete_wait"
    /\ \E stack_name \in Deleting :
       \E answer \in Answers("wait_delete", account_id, stack_name, 0, 0,
                             {Ok, Failed}) :
       \E left \in {"DELETE_FAILED", "DELETE_IN_PROGRESS"} :
       LET remaining == IF answer.result = "ok"
                        THEN orphaned_stacks \ {stack_name}
                        ELSE ExceptDeleteStack(orphaned_stacks \ {stack_name})
       IN
          /\ calls' = Append(calls,
                 Call("wait_delete", account_id, stack_name, 0, 0, answer))
          /\ failures' = Count(answer)
          /\ cp' = [cp EXCEPT ![account_id] =
                       IF answer.result = "ok"
                       THEN Drop(@, stack_name)
                       ELSE Put(@, stack_name, left)]
          /\ results' =
                IF DeleteReturn(answer)
                THEN [results EXCEPT !.deleted =
                         Append(@, ResultEntry(stack_name, account_id))]
                ELSE results
          /\ orphaned_stacks' = remaining
          /\ pc' = DeleteLoopNext(remaining)
    /\ UNCHANGED << manifest, cp0, expected_stacks, all_accounts,
                    account_stacks, account_existing_stacks, todo_accounts,
                    account_id, ti, ai, run, mode, quiet, first_results >>

(* --------------------------- the deploy loop -------------------------- *)

\* The variant of PairAfter that leaves the loop of line 237 after one account.
PairAfterBreak(i, j) == NextPair(manifest.templates, i + 1, 1)

\* Where the deploy loop is after the pair (i, j), and the pc there.
PairAfter(i, j) == NextPair(manifest.templates, i, j + 1)
PcAt(pos) == IF pos[1] > Len(manifest.templates) THEN "done" ELSE "deploy_loop"

\* The variant of DeployExceptPc without the handler: the exception leaves
\* deploy_all.
DeployExceptRaise(pos) == "raised"

\* Lines 249-253: the handler is inside the loop of line 237, which goes on
\* with the next pair.
DeployExceptPc(pos) == PcAt(pos)

\* Lines 287-301: what lambda_handler returns; 0 while it runs.
statusCode ==
    IF pc = "done" THEN 200 ELSE IF pc = "raised" THEN 500 ELSE 0

\* Lines 289-301: the lists of the body; none in the body of an error.
body == IF pc = "done" THEN results ELSE EmptyResults

\* Lines 197 and 218: the first loop is over, the deploy loop begins.
StartDeployLoop ==
    /\ pc = "orphan_loop"
    /\ todo_accounts = {}
    /\ LET pos == NextPair(manifest.templates, 1, 1)
       IN  /\ ti' = pos[1]
           /\ ai' = pos[2]
           /\ pc' = PcAt(pos)
    /\ UNCHANGED << manifest, cp, cp0, results, expected_stacks, all_accounts,
                    account_stacks, account_existing_stacks, todo_accounts,
                    account_id, orphaned_stacks, calls, failures, run, mode,
                    quiet, first_results >>

\* The variant of FailedEntry that records the account alone, as line 181 does.
FailedEntryBare(template_file, a) == a

\* Lines 247 and 253: f"{template_file}:{account_id}" for the failed list.
FailedEntry(template_file, a) == ResultEntry(template_file, a)

\* Lines 237-239, 249-253: assume the role for the pair; when that raises,
\* the pair is recorded as failed and the loop goes on.
AssumeRoleForDeploy ==
    /\ pc = "deploy_loop"
    /\ LET template_file == manifest.templates[ti].template_file
           a == manifest.templates[ti].accounts[ai]
           pos == PairAfter(ti, ai)
       IN  \E answer \in Answers("assume_role", a, <<>>, ti, ai, {Ok, Failed}) :
              /\ calls' = Append(calls, Call("assume_role", a, <<>>, ti, ai, answer))
              /\ failures' = Count(answer)
              /\ IF answer.result = "ok"
                 THEN /\ pc' = "deploy"
                      /\ UNCHANGED << results, ti, ai >>
                 ELSE /\ results' = [results EXCEPT !.failed =
                                        Append(@, FailedEntry(template_file, a))]
                      /\ ti' = pos[1]
                      /\ ai' = pos[2]
                      /\ pc' = DeployExceptPc(pos)
    /\ UNCHANGED << manifest, cp, cp0, expected_stacks, all_accounts,
                    account_stacks, account_existing_stacks, todo_accounts,
                    account_id, orphaned_stacks, run, mode, quiet,
                    first_results >>

\* Line 240: account_existing_stacks.get(account_id, {})
SnapshotOf(a) ==
    IF a \in DOMAIN account_existing_stacks
    THEN account_existing_stacks[a]
    ELSE {}

\* Lines 235 and 242-244: the stack name the deploy loop hands to
\* _deploy_stack is the value of _generate_stack_name, as it is.
DeployName(template_file, a) == generate_stack_name(template_file)

\* Lines 115-138: update_stack when the name is in the snapshot, else
\* create_stack.
DeployOp(stack_name, existing_stacks) ==
    IF stack_name \in existing_stacks THEN "update_stack" ELSE "create_stack"

\* Lines 240-253 (and 105-138): submit the create or the update and record
\* the pair; the request is not awaited.
DeployStack ==
    /\ pc = "deploy"
    /\ LET template_file == manifest.templates[ti].template_file
           a == manifest.templates[ti].accounts[ai]
           stack_name == DeployName(template_file, a)
           op == DeployOp(stack_name, SnapshotOf(a))
           pos == PairAfter(ti, ai)
           accepted == Accepts(op, a, stack_name)
       IN  \E answer \in IF accepted
                         THEN Answers(op, a, stack_name, ti, ai, {Ok, Failed})
                         ELSE {Failed} :
              /\ calls' = Append(calls, Call(op, a, stack_name, ti, ai, answer))
              /\ failures' = IF accepted THEN Count(answer) ELSE failures
              /\ IF answer.result = "ok"
                 THEN /\ cp' = [cp EXCEPT ![a] =
                                   Put(@, stack_name,
                                       IF op = "create_stack"
                                       THEN "CREATE_IN_PROGRESS"
                                       ELSE "UPDATE_IN_PROGRESS")]
                      /\ results' = [results EXCEPT !.success =
                                        Append(@, ResultEntry(template_file, a))]
                 ELSE /\ UNCHANGED cp
                      /\ results' = [results EXCEPT !.failed =
                                        Append(@, FailedEntry(template_file, a))]
              /\ ti' = pos[1]
              /\ ai' = pos[2]
              /\ pc' = IF answer.result = "ok" THEN PcAt(pos) ELSE DeployExceptPc(pos)
    /\ UNCHANGED << manifest, cp0, expected_stacks, all_accounts,
                    account_stacks, account_existing_stacks, todo_accounts,
                    account_id, orphaned_stacks, run, mode, quiet,
                    first_results >>

(* ------------------------------ the runs ------------------------------ *)

Next ==
    \/ FirstPass
    \/ AssumeRoleForOrphans
    \/ GetExistingStacks
    \/ DeleteStack
    \/ WaitStackDeleteComplete
    \/ StartDeployLoop
    \/ AssumeRoleForDeploy
    \/ DeployStack

\* One run of deploy_all.
Spec == Init /\ [][Next]_vars

\* A run over a manifest of NamingManifests.
InitNaming ==
    /\ manifest \in NamingManifests
    /\ cp \in [Accounts -> UNION {InitialStacks(a) : a \in Accounts}]
    /\ \A a \in Accounts : cp[a] \in InitialStacks(a)
    /\ cp0 = cp
    /\ RunStart
    /\ calls = <<>>
    /\ run = 1
    /\ mode = "first"
    /\ quiet = NoAccount
    /\ first_results = EmptyResults

\* One run of deploy_all over template files with a common base name.
SpecNaming == InitNaming /\ [][Next]_vars

\* deploy_all is entered again: its locals are as in RunStart.
StartRun ==
    /\ pc' = "first_pass"
    /\ results' = EmptyResults
    /\ expected_stacks' = {}
    /\ all_accounts' = {}
    /\ account_stacks' = [a \in Accounts |-> {}]
    /\ account_existing_stacks' = NoSnapshots
    /\ todo_accounts' = {}
    /\ account_id' = NoAccount
    /\ orphaned_stacks' = {}
    /\ ti' = 1
    /\ ai' = 1
    /\ failures' = 0

\* What the control plane holds once the requests in flight are through:
\* a creation or an update has completed, a deletion has removed the stack.
Settled(stacks) ==
    [n \in {m \in DOMAIN stacks : stacks[m] # "DELETE_IN_PROGRESS"} |->
        IF stacks[n] = "CREATE_IN_PROGRESS" THEN "CREATE_COMPLETE"
        ELSE IF stacks[n] = "UPDATE_IN_PROGRESS" THEN "UPDATE_COMPLETE"
        ELSE stacks[n]]

\* lambda_handler is invoked again with the same bundle, after a first run in
\* which the environment failed no call, once the requests of that run are
\* through and with no other change to the accounts.
Rerun ==
    /\ pc = "done"
    /\ mode = "first"
    /\ failures = 0
    /\ cp' = [a \in Accounts |-> Settled(cp[a])]
    /\ StartRun
    /\ run' = 2
    /\ mode' = "again"
    /\ first_results' = results
    /\ UNCHANGED << manifest, cp0, calls, quiet >>

NextTwice == Next \/ Rerun

\* Two runs of deploy_all in succession against the same manifest.
SpecTwice == Init /\ [][NextTwice]_vars

\* The accounts for which a call of the first run failed.
FailedAccounts == {c.acct : c \in {d \in Range(calls) : d.result # "ok"}}

\* The run is made again from the same accounts and the same manifest, with
\* every call answered as in the first run, except that the calls for one
\* account that had a failure (the quiet account) now succeed.
Replay ==
    /\ pc = "done"
    /\ mode = "first"
    /\ quiet' \in FailedAccounts
    /\ cp' = cp0
    /\ StartRun
    /\ run' = 2
    /\ mode' = "replay"
    /\ first_results' = results
    /\ UNCHANGED << manifest, cp0, calls >>

NextIso == Next \/ Replay

\* A run of deploy_all, and the same run without the failures of one account.
SpecIso == Init /\ [][NextIso]_vars

\* The run is made again from the same accounts and the same manifest, with
\* every call answered as in the first run; the loops of lines 197 and 208
\* take the elements of their sets in any order again.
ReplayOrder ==
    /\ pc = "done"
    /\ mode = "first"
    /\ quiet' = NoAccount
    /\ cp' = cp0
    /\ StartRun
    /\ run' = 2
    /\ mode' = "order"
    /\ first_results' = results
    /\ UNCHANGED << manifest, cp0, calls >>

NextOrder == Next \/ ReplayOrder

\* A run of deploy_all, and the same run with the accounts and the orphans
\* taken in another order.
SpecOrder == Init /\ [][NextOrder]_vars

(* ------------------------------- claims ------------------------------- *)

Mutations == {"delete_stack", "create_stack", "update_stack"}
Deploys == {"create_stack", "update_stack"}

\* The calls of the current run, as indices of the log.
ThisRun == {k \in 1..Len(calls) : calls[k].run = run}

\* The environment failed no call and the control plane refused none.
AllCallsOk == \A k \in 1..Len(calls) : calls[k].result = "ok"

\* The names an operation was called with for an account in this run.
Submitted(op, a) ==
    {calls[k].name : k \in {i \in ThisRun : calls[i].op = op /\ calls[i].acct = a}}

\* The stack identity of section 3 for a pair: prefix-templateBaseName-accountId.
StackIdentity(template_file, a) ==
    STACK_PREFIX \o <<"-">> \o splitext(basename(template_file)) \o <<"-">> \o a

\* The orphans planned for a: its snapshot less what the manifest expects.
Planned(a) == SnapshotOf(a) \ account_stacks[a]

\* The account a result entry is for: the text after its last ":".
AccountOf(entry) == SubSeq(entry, RFind(entry, ":") + 1, Len(entry))

\* C1: in a second run that follows a first one with no change in between,
\* every call having succeeded, no stack is deleted and none is created.
C1_ConvergenceIdempotence ==
    (mode = "again" /\ AllCallsOk) =>
        \A k \in ThisRun : calls[k].op \notin {"delete_stack", "create_stack"}

\* C2: at the end of a run in which no call failed, for every account read,
\* the names deleted, created and updated are pairwise disjoint and their
\* union is the expected set together with the observed set.
C2_PlanPartition ==
    (pc = "done" /\ AllCallsOk) =>
        \A a \in all_accounts :
            LET toDelete == Submitted("delete_stack", a)
                toCreate == Submitted("create_stack", a)
                toUpdate == Submitted("update_stack", a)
            IN  /\ toDelete \cap toCreate = {}
                /\ toDelete \cap toUpdate = {}
                /\ toCreate \cap toUpdate = {}
                /\ toDelete \cup toCreate \cup toUpdate =
                       account_stacks[a] \cup SnapshotOf(a)

\* The deletion of stack n in account a had ended before call k: its waiter
\* had returned or raised, or its delete_stack call had raised.
SettledBefore(a, n, k) ==
    \E i \in ThisRun :
        /\ i < k
        /\ calls[i].acct = a
        /\ calls[i].name = n
        /\ \/ calls[i].op = "wait_delete"
           \/ calls[i].op = "delete_stack" /\ calls[i].result # "ok"

\* C3: when a create_stack or update_stack call is made for an account, every
\* orphan deletion planned for that account has ended, none is in flight, and
\* no deletion is started for that account afterwards.
C3_OrphanBeforeDeploy ==
    \A k \in ThisRun :
        calls[k].op \in Deploys =>
            /\ \A n \in Planned(calls[k].acct) : SettledBefore(calls[k].acct, n, k)
            /\ \A i \in ThisRun :
                  (i > k /\ calls[i].acct = calls[k].acct) =>
                      calls[i].op \notin {"delete_stack", "wait_delete", "list_stacks"}

\* A deploy call was made for an account that had two orphans planned.
C3_Witness ==
    \E k \in ThisRun :
        /\ calls[k].op \in Deploys
        /\ Cardinality(Planned(calls[k].acct)) >= 2

\* The entries of a result list that are for account a, in their order.
ForAccount(list, a) == SelectSeq(list, LAMBDA e : AccountOf(e) = a)

DeployCalls == {k \in ThisRun : calls[k].op \in Deploys}

\* The template_file of the pair a call of the deploy loop was made for.
TemplateOf(k) == manifest.templates[calls[k].ti].template_file

\* C5: the name the deploy phase hands to create_stack or update_stack is
\* prefix-templateBaseName-accountId, the name this run put in the account's
\* expected set for the pair (stated for the runs in which no call fails).
C5_StackIdentity ==
    AllCallsOk =>
        \A k \in DeployCalls :
            /\ calls[k].name = StackIdentity(TemplateOf(k), calls[k].acct)
            /\ calls[k].name \in account_stacks[calls[k].acct]

\* The manifest and the accounts of the scenario of section 8: net.yaml for
\* 111 and 222, where 111 holds rvm-provisioned-net-111 and 222 no managed stack.
NetScenario ==
    /\ manifest.templates = <<[template_file |-> NetYaml, accounts |-> <<Acct1, Acct2>>]>>
    /\ Managed(DOMAIN cp0[Acct1]) \ {BrokenStack(Acct1)} = {NetStack(Acct1)}
    /\ Managed(DOMAIN cp0[Acct2]) \ {BrokenStack(Acct2)} = {}

\* C6: the deploy phase calls update_stack for a pair exactly when the pair's
\* stack identity is in the account's snapshot, and create_stack otherwise;
\* in the scenario it updates rvm-provisioned-net-111, creates
\* rvm-provisioned-net-222 and deletes nothing (stated for the runs in which
\* no call fails).
C6_CreateOrUpdate ==
    /\ AllCallsOk =>
          \A k \in DeployCalls :
              calls[k].op = "update_stack" <=>
                  StackIdentity(TemplateOf(k), calls[k].acct)
                      \in SnapshotOf(calls[k].acct)
    /\ (NetScenario /\ pc = "done" /\ AllCallsOk) =>
          /\ Submitted("update_stack", Acct1) = {NetStack(Acct1)}
          /\ Submitted("create_stack", Acct2) = {NetStack(Acct2)}
          /\ Submitted("create_stack", Acct1) = {}
          /\ Submitted("update_stack", Acct2) = {}
          /\ \A a \in Accounts : Submitted("delete_stack", a) = {}

\* C7: after the listing of an account's stacks failed, no delete_stack,
\* create_stack or update_stack call is made for that account in the run.
C7_StateReadFailure ==
    \A i \in ThisRun, k \in ThisRun :
        (/\ calls[i].op = "list_stacks"
         /\ calls[i].result # "ok"
         /\ calls[k].acct = calls[i].acct) => calls[k].op \notin Mutations

\* The entries of the manifest whose template file is absent from the bundle.
MissingTemplate ==
    {i \in 1..Len(manifest.templates) :
        /\ manifest.templates[i].template_file # <<>>
        /\ manifest.templates[i].accounts # <<>>
        /\ Unreadable(manifest.templates[i])}

\* C8: once the manifest is read, every account of an entry whose template
\* file is missing is in failed, and no create, update or delete is ever
\* attempted on that entry's stack in those accounts (stated for the runs in
\* which no call fails).
C8_MissingTemplate ==
    (pc # "first_pass" /\ AllCallsOk) =>
        \A i \in MissingTemplate :
        \A a \in Range(manifest.templates[i].accounts) :
            /\ \E j \in 1..Len(results.failed) : AccountOf(results.failed[j]) = a
            /\ \A k \in ThisRun :
                  (calls[k].op \in Mutations /\ calls[k].acct = a) =>
                      calls[k].name #
                          StackIdentity(manifest.templates[i].template_file, a)

\* C9: after assuming the role for an account failed while the run read the
\* accounts' state, no delete_stack, create_stack or update_stack call is made
\* for that account in the run.
C9_AssumeRoleFailure ==
    \A i \in ThisRun, k \in ThisRun :
        (/\ calls[i].op = "assume_role"
         /\ calls[i].ti = 0
         /\ calls[i].result # "ok"
         /\ calls[k].acct = calls[i].acct) => calls[k].op \notin Mutations

\* The stacks the manifest declares for account a: one for each entry that
\* names a and whose template file is in the bundle.
Declared(a) ==
    {StackIdentity(manifest.templates[i].template_file, a) :
        i \in {j \in 1..Len(manifest.templates) :
                  /\ ~Skipped(manifest.templates[j])
                  /\ a \in Range(manifest.templates[j].accounts)}}

\* The deletions of this run whose waiter returned: "stackName:accountId".
DeletedOk ==
    {ResultEntry(calls[k].name, calls[k].acct) :
        k \in {i \in ThisRun : calls[i].op = "wait_delete" /\ calls[i].result = "ok"}}

\* The deletions of this run whose delete_stack call or waiter raised.
DeletedNot ==
    {ResultEntry(calls[k].name, calls[k].acct) :
        k \in {i \in ThisRun : /\ calls[i].op \in {"delete_stack", "wait_delete"}
                               /\ calls[i].result # "ok"}}

DeclaredPairs ==
    UNION {{<<manifest.templates[i].template_file, manifest.templates[i].accounts[j]>> :
                j \in 1..Len(manifest.templates[i].accounts)} :
           i \in {k \in 1..Len(manifest.templates) : ~Skipped(manifest.templates[k])}}

\* The stack name the first loop derives for a pair (lines 184-188).
NameOfPair(pair) == ExpectedName(generate_stack_name(pair[1]), pair[2])

\* C11, naming is collision-free: once the first loop has run, the names it
\* has put in expected_stacks for two distinct (template_file, account) pairs
\* of the manifest differ, whatever directory or extension the two template
\* files have, and naming a pair again gives the name already in the set.
C11_NamingCollisionFree ==
    (pc # "first_pass" /\ pc # "raised") =>
        \A p \in DeclaredPairs, q \in DeclaredPairs :
            /\ NameOfPair(p) \in expected_stacks
            /\ p # q => NameOfPair(p) # NameOfPair(q)

\* The entries of the "templateFile:accountId" shape the manifest allows for:
\* one per entry with a template_file and per account of that entry.
PairEntries ==
    UNION {{ResultEntry(manifest.templates[i].template_file,
                        manifest.templates[i].accounts[j]) :
                j \in 1..Len(manifest.templates[i].accounts)} :
           i \in {k \in 1..Len(manifest.templates) :
                     manifest.templates[k].template_file # <<>>}}

\* C12, result shape: when the run is over, every element of the failed list
\* is "templateFile:accountId" for a template_file and an account of one
\* manifest entry, whether the template file was missing, the role could not
\* be assumed or the create or update call failed.
C12_ResultShape ==
    pc = "done" => \A k \in 1..Len(results.failed) : results.failed[k] \in PairEntries

\* The positions (entry, account) of the pairs the deploy loop reaches: the
\* entries with a template_file that is read and with accounts.
ResolvablePositions ==
    UNION {{<<i, j>> : j \in 1..Len(manifest.templates[i].accounts)} :
           i \in {k \in 1..Len(manifest.templates) : ~Skipped(manifest.templates[k])}}

\* The calls of this run's deploy loop for the pair at a position.
CallsFor(ops, pos) ==
    {k \in ThisRun : calls[k].op \in ops /\ calls[k].ti = pos[1] /\ calls[k].ai = pos[2]}

\* C13, unconditional re-submission: in a first run and in the run that
\* follows it with the same bundle, (1) when the run is over the role was
\* assumed once for every pair whose template is read and, where that
\* succeeded, exactly one create_stack or update_stack was submitted for the
\* pair, none where it failed; (2) an accepted request leaves the stack in
\* progress, the run does not wait for it; (3) from the call on the pair is in
\* success when the request was accepted and in failed when it raised.
C13_UnconditionalResubmission ==
    /\ pc = "done" =>
          \A pos \in ResolvablePositions :
              /\ Cardinality(CallsFor({"assume_role"}, pos)) = 1
              /\ \A k \in CallsFor({"assume_role"}, pos) :
                    Cardinality(CallsFor(Deploys, pos)) =
                        IF calls[k].result = "ok" THEN 1 ELSE 0
    /\ (Len(calls) > 0 /\ Len(calls) \in DeployCalls /\ calls[Len(calls)].result = "ok") =>
          cp[calls[Len(calls)].acct][calls[Len(calls)].name]
              \in {"CREATE_IN_PROGRESS", "UPDATE_IN_PROGRESS"}
    /\ \A k \in DeployCalls :
          ResultEntry(TemplateOf(k), calls[k].acct) \in
              IF calls[k].result = "ok"
              THEN Range(results.success)
              ELSE Range(results.failed)

\* A second run is over in which one request was accepted for a stack the
\* first run had submitted already, and another one raised.
C13_Witness ==
    /\ mode = "again"
    /\ pc = "done"
    /\ \E k \in DeployCalls : calls[k].result = "ok" /\ calls[k].op = "update_stack"
    /\ \E k \in DeployCalls : calls[k].result # "ok"

\* C14, trigger status: lambda_handler returns 500 only when the exception
\* was raised before any delete_stack, create_stack or update_stack call of
\* the run; when the handler returns after such a call was attempted, it
\* returns 200 with the success, failed and deleted lists of the run in the
\* body, whatever calls failed.
C14_TriggerStatus ==
    /\ statusCode = 500 => \A k \in ThisRun : calls[k].op \notin Mutations
    /\ (statusCode # 0 /\ \E k \in ThisRun : calls[k].op \in Mutations) =>
          statusCode = 200 /\ body = results

\* The handler has returned after a delete, create or update call failed.
C14_Witness ==
    /\ statusCode = 200
    /\ \E k \in ThisRun : calls[k].op \in Mutations /\ calls[k].result # "ok"

\* The control-plane calls a run made in an account, with their answers.
CallsOf(r, a) ==
    {[op |-> c.op, name |-> c.name, ti |-> c.ti, ai |-> c.ai, result |-> c.result] :
        c \in {d \in Range(calls) : d.run = r /\ d.acct = a}}

\* The calls of a run that assume the role for the loop of line 197.
OrphanAssumes(r) ==
    {k \in 1..Len(calls) : calls[k].run = r /\ calls[k].op = "assume_role" /\ calls[k].ti = 0}

C16_RunCompletion ==
    manifest.raises = "" => pc # "raised"

\* The delete_stack calls and the waits of this run that failed in an account.
FailedDeletes(a) ==
    {k \in ThisRun : /\ calls[k].acct = a
                     /\ calls[k].op \in {"delete_stack", "wait_delete"}
                     /\ calls[k].result # "ok"}

\* The positions of the pairs of the deploy loop that target an account.
PositionsOf(a) ==
    {pos \in ResolvablePositions : manifest.templates[pos[1]].accounts[pos[2]] = a}

\* C17, a delete failure does not abort the account: when the run is over and
\* a delete_stack call or its wait failed in an account, delete_stack was
\* called for every orphan planned for the account, and for every pair that
\* targets the account the deploy loop assumed the role and, with the role
\* assumed, submitted the create or the update.
C17_DeleteFailureGoesOn ==
    pc = "done" =>
        \A a \in Accounts :
            FailedDeletes(a) # {} =>
                /\ Planned(a) \subseteq Submitted("delete_stack", a)
                /\ \A pos \in PositionsOf(a) :
                      /\ CallsFor({"assume_role"}, pos) # {}
                      /\ \A k \in CallsFor({"assume_role"}, pos) :
                            calls[k].result = "ok" => CallsFor(Deploys, pos) # {}

\* The run is over; in one account a deletion failed, another orphan was
\* taken after it and a pair of the account was deployed.
C17_Witness ==
    /\ pc = "done"
    /\ \E a \in Accounts :
          /\ \E k \in FailedDeletes(a) :
             \E n \in ThisRun :
                /\ n > k
                /\ calls[n].acct = a
                /\ calls[n].op = "delete_stack"
                /\ calls[n].name # calls[k].name
          /\ \E pos \in PositionsOf(a) : CallsFor(Deploys, pos) # {}

\* C18, no delete-then-deploy on the same stack: in one run and one account,
\* a name handed to delete_stack is not handed to create_stack or
\* update_stack afterwards.
C18_NoDeleteThenDeploy ==
    \A i \in ThisRun, k \in ThisRun :
        (/\ i < k
         /\ calls[i].op = "delete_stack"
         /\ calls[k].op \in Deploys
         /\ calls[k].acct = calls[i].acct) => calls[k].name # calls[i].name

\* The names this run's listing of an account delivered.
Listed(a) ==
    UNION {calls[k].seen :
              k \in {i \in ThisRun : calls[i].op = "list_stacks" /\ calls[i].acct = a}}

\* The stacks the entries of the manifest whose template is read deploy to an
\* account: the names the deploy loop submits for them.
DeployedTo(a) ==
    {DeployName(manifest.templates[pos[1]].template_file, a) : pos \in PositionsOf(a)}

\* C19, deletion scope: delete_stack is called in an account only with a name
\* that this run's listing of the account delivered (a stack in
\* CREATE_COMPLETE or UPDATE_COMPLETE) and that starts with rvm-provisioned,
\* and never with the name of a stack that an entry of the manifest whose
\* template is read deploys to the account.
C19_DeletionScope ==
    \A k \in ThisRun :
        calls[k].op = "delete_stack" =>
            /\ calls[k].name \in Listed(calls[k].acct)
            /\ StartsWith(calls[k].name, STACK_PREFIX)
            /\ calls[k].name \notin DeployedTo(calls[k].acct)
            /\ calls[k].name \notin Declared(calls[k].acct)

\* How many times an entry is in a list.
Occurs(list, e) == Cardinality({k \in 1..Len(list) : list[k] = e})

\* The manifest lists no (template_file, account) pair twice.
NoPairTwice == Cardinality(DeclaredPairs) = Cardinality(ResolvablePositions)

\* The entries of a list that have the shape of a pair.
PairShaped(list) == {e \in Range(list) : ":" \in Range(e)}

\* C20, result accounting: when the run over a manifest that lists no pair
\* twice is over, "templateFile:accountId" of each pair whose template file
\* is read is once in success and failed taken together, and every entry of
\* success or failed that names a pair names one of these, none from an entry
\* that has no template_file or no accounts.
C20_ResultAccounting ==
    (pc = "done" /\ NoPairTwice) =>
        /\ \A p \in DeclaredPairs :
              Occurs(results.success \o results.failed, ResultEntry(p[1], p[2])) = 1
        /\ PairShaped(results.success) \cup PairShaped(results.failed)
              \subseteq {ResultEntry(p[1], p[2]) : p \in DeclaredPairs}

\* The run is over with a pair in success and a pair in failed, over a
\* manifest with an entry that has no template_file.
C20_Witness ==
    /\ pc = "done"
    /\ PairShaped(results.success) # {}
    /\ PairShaped(results.failed) # {}
    /\ \E i \in 1..Len(manifest.templates) :
          /\ manifest.templates[i].template_file = <<>>
          /\ manifest.templates[i].accounts # <<>>

====
